---- MODULE Spec2Model ----
(***************************************************************************)
(* Model of src/main.py: the TwitterSentimentScraper session, the          *)
(* process-wide scraper singleton guarded by scraper_lock (lifespan and    *)
(* get_scraper), and the scrape_tweets pipeline run by /analyze requests.  *)
(***************************************************************************)
EXTENDS Integers, Sequences, FiniteSets, TLC

\* ------------------------------------------------------------------ bounds
\* number of concurrent get_scraper callers in the lifecycle specification
NumCallers == 2
\* largest num_pages argument passed to scrape_tweets
MaxNumPages == 2
\* largest number of timeline-item elements one page exposes
MaxTweets == 3
\* largest number of timeline-item elements the pages of one request expose
\* in total
MaxResults == 3
\* largest number of tweet-stat elements one timeline-item exposes
MaxStats == 5

\* --------------------------------------------------------------- constants
None == 0
NoHolder == -1
\* thread id of the lifespan context manager
Lifespan == 0

VARIABLES
  scraper_lock,  \* threading.Lock: NoHolder or the thread holding it
  scraper,       \* the global: None or the id of the installed session
  created,       \* number of TwitterSentimentScraper() calls that returned
  leaked,        \* browsers started by a constructor that then raised
  driver,        \* browser handle of the installed session
  executor,      \* worker pool of the installed session
  pc,            \* position of every thread (lifespan, callers, requests)
  seen,          \* per thread: the value `scraper is None` read under the lock
  ret,           \* per thread: the value get_scraper returned
  attempts,      \* per thread: calls of TwitterSentimentScraper() it made
  browser,       \* page the shared browser currently shows
  fresh,         \* requests whose element references are of the current DOM
  num_pages,     \* per request: the num_pages argument
  iter,          \* per request: iterations of the pagination loop started
  tweets,        \* per request: elements found and not yet iterated
  tweet_data,    \* per request: the accumulator
  response,      \* per request: what /analyze answered
  extractCalls,  \* per request: calls of extract_tweets
  clicks,        \* per request: execute_script clicks issued
  absent,        \* per request: show-more was found absent
  advanceError,  \* per request: finding or clicking show-more raised otherwise
  shown,         \* per request: elements the pages have exposed so far
  opened,        \* per request: outcome of opening the search page
  cls,           \* per request: the classification of some post failed
  last           \* per request: trace of the last loop iteration over a tweet

vars == <<scraper_lock, scraper, created, leaked, driver, executor, pc, seen,
          ret, attempts, browser, fresh, num_pages, iter, tweets, tweet_data, response,
          extractCalls, clicks, absent, advanceError, shown, opened, cls, last>>

guardVars == <<scraper_lock, scraper, created, leaked, driver, executor, seen, ret,
               attempts>>
scrapeVars == <<browser, fresh, num_pages, iter, tweets, tweet_data, response,
                extractCalls, clicks, absent, advanceError, shown, opened, cls, last>>

Threads == DOMAIN pc
Callers == Threads \ {Lifespan}

\* ------------------------------------------------- session lifecycle guard
\* outcomes of TwitterSentimentScraper.__init__: it returns, webdriver.Firefox
\* raises (no browser), or a later step raises after the browser was started
InitOutcomes == {"ok", "driver_fail", "late_fail"}

\* `with scraper_lock:` may be entered only while nobody holds the lock
LockFree_nolock(lock) == TRUE
LockFree(lock) == lock = NoHolder

\* with scraper_lock:  (entry)
LockAcquire(t, from, to) ==
  /\ pc[t] = from
  /\ LockFree(scraper_lock)
  /\ scraper_lock' = t
  /\ pc' = [pc EXCEPT ![t] = to]
  /\ UNCHANGED <<scraper, created, leaked, driver, executor, seen, ret, attempts>>
  /\ UNCHANGED scrapeVars

\* if scraper is None:
CheckNone(t, from, thenPc, elsePc) ==
  /\ pc[t] = from
  /\ seen' = [seen EXCEPT ![t] = (scraper = None)]
  /\ pc' = [pc EXCEPT ![t] = IF scraper = None THEN thenPc ELSE elsePc]
  /\ UNCHANGED <<scraper_lock, scraper, created, leaked, driver, executor, ret, attempts>>
  /\ UNCHANGED scrapeVars

\* scraper = TwitterSentimentScraper(); an exception leaves the with block,
\* which releases the lock, and reaches the caller
Construct(t, from, okPc, failPc, outcome) ==
  /\ pc[t] = from
  /\ IF outcome = "ok"
       THEN /\ created' = created + 1
            /\ scraper' = created + 1
            /\ driver' = "live"
            /\ executor' = "running"
            /\ leaked' = leaked + (IF driver = "live" THEN 1 ELSE 0)
            /\ pc' = [pc EXCEPT ![t] = okPc]
            /\ UNCHANGED scraper_lock
       ELSE /\ leaked' = leaked + (IF outcome = "late_fail" THEN 1 ELSE 0)
            /\ scraper_lock' = (IF scraper_lock = t THEN NoHolder ELSE scraper_lock)
            /\ pc' = [pc EXCEPT ![t] = failPc]
            /\ UNCHANGED <<scraper, created, driver, executor>>
  /\ attempts' = [attempts EXCEPT ![t] = @ + 1]
  /\ UNCHANGED <<seen, ret>>
  /\ UNCHANGED scrapeVars

\* with scraper_lock:  (normal exit)
LockRelease(t, from, to) ==
  /\ pc[t] = from
  /\ scraper_lock' = (IF scraper_lock = t THEN NoHolder ELSE scraper_lock)
  /\ pc' = [pc EXCEPT ![t] = to]
  /\ UNCHANGED <<scraper, created, leaked, driver, executor, seen, ret, attempts>>
  /\ UNCHANGED scrapeVars

\* get_scraper
gs_lock(t) == LockAcquire(t, "gs_lock", "gs_check")
gs_check(t) == CheckNone(t, "gs_check", "gs_new", "gs_unlock")
gs_new_retry(t) == \E o \in InitOutcomes : Construct(t, "gs_new", "gs_unlock", "gs_new", o)
gs_new(t) == \E o \in InitOutcomes : Construct(t, "gs_new", "gs_unlock", "raised", o)
gs_unlock(t) == LockRelease(t, "gs_unlock", "gs_return")
\* return scraper  (the global is read after the lock was released)
gs_return(t) ==
  /\ pc[t] = "gs_return"
  /\ ret' = [ret EXCEPT ![t] = scraper]
  /\ pc' = [pc EXCEPT ![t] = "returned"]
  /\ UNCHANGED <<scraper_lock, scraper, created, leaked, driver, executor, seen, attempts>>
  /\ UNCHANGED scrapeVars

\* lifespan, up to the yield
ls_lock == LockAcquire(Lifespan, "ls_lock", "ls_check")
ls_check == CheckNone(Lifespan, "ls_check", "ls_new", "ls_unlock")
ls_new == \E o \in InitOutcomes : Construct(Lifespan, "ls_new", "ls_unlock", "raised", o)
ls_unlock == LockRelease(Lifespan, "ls_unlock", "serving")

\* lifespan after the yield: if scraper is not None: scraper.close()
ls_shutdown ==
  /\ pc[Lifespan] = "serving"
  /\ pc' = [pc EXCEPT ![Lifespan] = IF scraper # None THEN "closing" ELSE "stopped"]
  /\ UNCHANGED guardVars
  /\ UNCHANGED scrapeVars

\* TwitterSentimentScraper.close: quit the driver, then stop the pool; an
\* exception of driver.quit() skips executor.shutdown and is logged
close(quitOk) ==
  /\ pc[Lifespan] = "closing"
  /\ driver' = (IF quitOk THEN "quit" ELSE driver)
  /\ executor' = (IF quitOk THEN "shutdown" ELSE executor)
  /\ pc' = [pc EXCEPT ![Lifespan] = "stopped"]
  /\ UNCHANGED <<scraper_lock, scraper, created, leaked, seen, ret, attempts>>
  /\ UNCHANGED scrapeVars

ls_close == \E quitOk \in BOOLEAN : close(quitOk)

NoRequestState == [r \in {} |-> 0]

InitGuard ==
  /\ scraper_lock = NoHolder
  /\ scraper = None
  /\ created = 0
  /\ leaked = 0
  /\ driver = "none"
  /\ executor = "none"
  /\ pc = [t \in 0..NumCallers |-> IF t = Lifespan THEN "ls_lock" ELSE "gs_lock"]
  /\ seen = [t \in 0..NumCallers |-> FALSE]
  /\ ret = [t \in 0..NumCallers |-> None]
  /\ attempts = [t \in 0..NumCallers |-> 0]
  /\ browser = [q |-> None, page |-> 0]
  /\ fresh = {}
  /\ num_pages = NoRequestState
  /\ iter = NoRequestState
  /\ tweets = NoRequestState
  /\ tweet_data = NoRequestState
  /\ response = NoRequestState
  /\ extractCalls = NoRequestState
  /\ clicks = NoRequestState
  /\ absent = NoRequestState
  /\ advanceError = NoRequestState
  /\ shown = NoRequestState
  /\ opened = NoRequestState
  /\ cls = NoRequestState
  /\ last = NoRequestState

NextGuard ==
  \/ ls_lock
  \/ ls_check
  \/ ls_new
  \/ ls_unlock
  \/ ls_shutdown
  \/ ls_close
  \/ \E t \in Callers : gs_lock(t)
  \/ \E t \in Callers : gs_check(t)
  \/ \E t \in Callers : gs_new(t)
  \/ \E t \in Callers : gs_unlock(t)
  \/ \E t \in Callers : gs_return(t)

SpecGuard == InitGuard /\ [][NextGuard]_vars

\* C3: at most one session is ever constructed and installed, and every
\* get_scraper call that has returned yielded the installed session.
C3_SingleSession ==
  /\ created <= 1
  /\ \A t \in Callers : pc[t] = "returned" => (ret[t] # None /\ ret[t] = scraper /\ ret[t] = 1)

\* two callers and the lifespan all went through the guard; both callers returned
C3_Witness ==
  /\ created = 1
  /\ \A t \in Callers : pc[t] = "returned"
  /\ \E t \in Callers : seen[t]
  /\ pc[Lifespan] \in {"serving", "closing", "stopped"}

\* ------------------------------------------------------------ scrape_tweets
Requests == DOMAIN num_pages

\* texts as sequences of code points: "h", "é" and "h " as the page shows them
RawTexts == {<<104>>, <<233>>, <<104, 32>>}
\* what the translation service answers when it answers: "e"
Translations == {<<101>>}
Null == "null"

\* str.isascii
IsAscii(s) == \A k \in 1..Len(s) : s[k] < 128

\* str.strip
RECURSIVE LStrip(_)
LStrip(s) == IF s # <<>> /\ Head(s) = 32 THEN LStrip(Tail(s)) ELSE s
RECURSIVE RStrip(_)
RStrip(s) == IF s # <<>> /\ s[Len(s)] = 32 THEN RStrip(SubSeq(s, 1, Len(s) - 1)) ELSE s
Strip(s) == LStrip(RStrip(s))

\* the sentiment model: a fixed function of the text it is given
sentiment_pipe(text) ==
  [label |-> IF IsAscii(text) THEN "positive" ELSE "neutral", score |-> 50 + Len(text)]

\* the text of the i-th tweet-stat element of an item: the digit i, every
\* second one with a blank after it
StatText(i) == IF i % 2 = 0 THEN <<48 + i, 32>> ELSE <<48 + i>>
\* stats = tweet.find_elements(By.CLASS_NAME, "tweet-stat") with k elements
StatList(k) == [i \in 1..k |-> StatText(i)]
StatLists == {StatList(k) : k \in 0..MaxStats}

\* stats[i].text.strip() if i < len(stats) else "0"  (slot i of range(4), from 1)
StatSlot_offByOne(stats, i) == IF i < Len(stats) THEN Strip(stats[i]) ELSE <<48>>
StatSlot(stats, i) == IF i <= Len(stats) THEN Strip(stats[i]) ELSE <<48>>

\* image_url: the src of avatar.round, or None on NoSuchElementException
ImageUrl(el) == IF el.avatar THEN "src" ELSE "None"

\* what the page and the collaborators do for one timeline-item
AllElements ==
  [present : BOOLEAN, text : RawTexts, translation_ok : BOOLEAN,
   translation : Translations, sentiment_ok : BOOLEAN,
   stats : StatLists, avatar : BOOLEAN]

\* the items of the pipeline specifications: two stats and an avatar each
Elements ==
  [present : BOOLEAN, text : RawTexts, translation_ok : BOOLEAN,
   translation : Translations, sentiment_ok : BOOLEAN,
   stats : {StatList(2)}, avatar : {TRUE}]

NoTweets == [src |-> None, page |-> 0, n |-> 0, idx |-> 0]
NoResponse == [status |-> 0, results |-> <<>>]
NoLast ==
  [kind |-> "none", extracted |-> FALSE, text |-> <<>>, translateCalled |-> FALSE,
   translateFailed |-> FALSE, trans_content |-> <<>>, submitted |-> FALSE,
   classified |-> FALSE, appended |-> FALSE, nstats |-> 0, missing |-> FALSE]

\* every call on the browser handle raises once the driver was quit
BrowserUp == driver = "live"

\* for _ in range(num_pages)
InRange_unbounded(k, n) == TRUE
InRange(k, n) == k < n

\* the except clauses after driver.get / wait.until: every exception returns []
LoadFails_timeoutIgnored(o) == o \notin {"ok", "timeout"}
LoadFails(o) == o # "ok"

\* except NoSuchElementException: break
NoSuchElementPc_continue == "loop"
NoSuchElementPc == "return"

\* tweet_content = tweet.find_element(...).text.strip()
tweet_content(el) == Strip(el.text)

\* if not tweet_content.isascii():
NeedsTranslation_always(text) == TRUE
NeedsTranslation(text) == ~IsAscii(text)

\* except Exception as e: trans_content = tweet_content
TranslateFallback_empty(text) == <<>>
TranslateFallback(text) == text

\* lines 114-121
trans_content(text, el) ==
  IF NeedsTranslation(text)
    THEN IF el.translation_ok THEN el.translation ELSE TranslateFallback(text)
    ELSE text

\* future = self.executor.submit(...); sentiment_result = future.result()
\* an exception of the pipeline is re-raised by result()
SentimentResult_swallow(ok, text) ==
  IF ok THEN [raised |-> FALSE, label |-> sentiment_pipe(text).label,
              score |-> sentiment_pipe(text).score]
        ELSE [raised |-> FALSE, label |-> Null, score |-> -1]
SentimentResult(ok, text) ==
  IF ok THEN [raised |-> FALSE, label |-> sentiment_pipe(text).label,
              score |-> sentiment_pipe(text).score]
        ELSE [raised |-> TRUE, label |-> Null, score |-> -1]

\* the for loop over tweets: the inner except logs and the loop goes on
AfterTweet_abortPage(tw, raised) ==
  IF raised THEN [tw EXCEPT !.idx = tw.n] ELSE [tw EXCEPT !.idx = tw.idx + 1]
AfterTweet(tw, raised) == [tw EXCEPT !.idx = tw.idx + 1]

\* the five find_element calls for link, username, fullname, date and content:
\* NoSuchElementException of any of them leaves the try block
RequiredFound_defaulted(el) == TRUE
RequiredFound(el) == el.present

\* one iteration of the loop over tweets, lines 97-145
Iteration(r, el) ==
  LET extracted == RequiredFound(el) /\ r \in fresh /\ BrowserUp
      text == tweet_content(el)
      called == extracted /\ NeedsTranslation(text)
      trans == trans_content(text, el)
      ok == el.sentiment_ok /\ executor = "running"
      res == SentimentResult(ok, trans)
  IN [extracted |-> extracted,
      text |-> IF extracted THEN text ELSE <<>>,
      translateCalled |-> called,
      translateFailed |-> called /\ ~el.translation_ok,
      trans_content |-> IF extracted THEN trans ELSE <<>>,
      submitted |-> extracted,
      classified |-> extracted /\ ok,
      appended |-> extracted /\ ~res.raised,
      nstats |-> IF extracted THEN Len(el.stats) ELSE 0,
      post |-> [tweet_url |-> <<tweets[r].src, tweets[r].page, tweets[r].idx + 1>>,
                tweet_content |-> text,
                trans_content |-> trans,
                sentiment |-> res.label,
                sentiment_score |-> res.score,
                comments |-> StatSlot(el.stats, 1),
                retweets |-> StatSlot(el.stats, 2),
                quotes |-> StatSlot(el.stats, 3),
                likes |-> StatSlot(el.stats, 4),
                image_url |-> ImageUrl(el)]]

\* self.driver.get(url)
sc_get(r, o) ==
  /\ pc[r] = "get"
  /\ o = "ok" => BrowserUp
  /\ browser' = (IF o = "ok" THEN [q |-> r, page |-> 1] ELSE [q |-> None, page |-> 0])
  /\ fresh' = {}
  /\ opened' = [opened EXCEPT ![r] = IF o = "ok" THEN "loading" ELSE "fail"]
  /\ IF LoadFails(o)
       THEN /\ pc' = [pc EXCEPT ![r] = "done"]
            /\ response' = [response EXCEPT ![r] = [status |-> 200, results |-> <<>>]]
       ELSE /\ pc' = [pc EXCEPT ![r] = "wait"]
            /\ UNCHANGED response
  /\ UNCHANGED <<shown, num_pages, iter, tweets, tweet_data, extractCalls, clicks, absent, advanceError, cls, last>>
  /\ UNCHANGED guardVars

\* self.wait.until(EC.presence_of_element_located((By.CLASS_NAME, "timeline")))
sc_wait(r, o) ==
  /\ pc[r] = "wait"
  /\ o = "ok" => (BrowserUp /\ browser.q # None)
  /\ opened' = [opened EXCEPT ![r] = IF o = "ok" /\ @ # "fail" THEN "ok" ELSE "fail"]
  /\ IF LoadFails(o)
       THEN /\ pc' = [pc EXCEPT ![r] = "done"]
            /\ response' = [response EXCEPT ![r] = [status |-> 200, results |-> <<>>]]
       ELSE /\ pc' = [pc EXCEPT ![r] = "extract"]
            /\ UNCHANGED response
  /\ UNCHANGED <<shown, browser, fresh, num_pages, iter, tweets, tweet_data, extractCalls,
                 clicks, absent, advanceError, cls, last>>
  /\ UNCHANGED guardVars

\* extract_tweets(): tweets = self.driver.find_elements(By.CLASS_NAME, "timeline-item")
sc_find_elements(r, n, ok) ==
  /\ pc[r] = "extract"
  /\ ok => BrowserUp
  /\ (browser.q = None \/ ~ok) => n = 0
  /\ shown[r] + n <= MaxResults
  /\ shown' = [shown EXCEPT ![r] = @ + n]
  /\ extractCalls' = [extractCalls EXCEPT ![r] = @ + 1]
  /\ tweets' = [tweets EXCEPT ![r] = [src |-> browser.q, page |-> browser.page,
                                      n |-> n, idx |-> 0]]
  /\ fresh' = (IF ok THEN fresh \cup {r} ELSE fresh)
  /\ pc' = [pc EXCEPT ![r] = "tweet"]
  /\ UNCHANGED <<browser, num_pages, iter, tweet_data, response, clicks, absent, advanceError,
                 opened, cls, last>>
  /\ UNCHANGED guardVars

\* tweet_data.append({...})
AppendPost_front(data, post) == <<post>> \o data
AppendPost(data, post) == Append(data, post)

\* for tweet in tweets: try: ... except Exception: log
sc_tweet(r, el) ==
  /\ pc[r] = "tweet"
  /\ tweets[r].idx < tweets[r].n
  /\ LET it == Iteration(r, el) IN
       /\ tweet_data' = [tweet_data EXCEPT ![r] =
                           IF it.appended THEN AppendPost(@, it.post) ELSE @]
       /\ tweets' = [tweets EXCEPT ![r] = AfterTweet(@, ~it.appended)]
       /\ cls' = [cls EXCEPT ![r] = @ \/ (it.submitted /\ ~it.classified)]
       /\ last' = [last EXCEPT ![r] =
                     [kind |-> "tweet", extracted |-> it.extracted, text |-> it.text,
                      translateCalled |-> it.translateCalled,
                      translateFailed |-> it.translateFailed,
                      trans_content |-> it.trans_content, submitted |-> it.submitted,
                      classified |-> it.classified, appended |-> it.appended,
                      nstats |-> it.nstats, missing |-> ~el.present]]
  /\ UNCHANGED <<shown, browser, fresh, num_pages, iter, response, extractCalls, clicks,
                 absent, advanceError, opened, pc>>
  /\ UNCHANGED guardVars

\* the loop over tweets is exhausted: extract_tweets returns
sc_end_extract(r) ==
  /\ pc[r] = "tweet"
  /\ tweets[r].idx >= tweets[r].n
  /\ pc' = [pc EXCEPT ![r] = "loop"]
  /\ tweets' = [tweets EXCEPT ![r] = NoTweets]
  /\ last' = [last EXCEPT ![r] = NoLast]
  /\ UNCHANGED <<shown, browser, fresh, num_pages, iter, tweet_data, response, extractCalls,
                 clicks, absent, advanceError, opened, cls>>
  /\ UNCHANGED guardVars

\* except Exception as e: ... break
AdvanceErrorPc_continue == "loop"
AdvanceErrorPc == "return"

\* load_more_button = self.driver.find_element(By.CLASS_NAME, "show-more")
sc_find_more(r, o) ==
  /\ pc[r] = "loop"
  /\ InRange(iter[r], num_pages[r])
  /\ o = "found" => (BrowserUp /\ browser.q # None)
  /\ iter' = [iter EXCEPT ![r] = @ + 1]
  /\ absent' = [absent EXCEPT ![r] = @ \/ o = "absent"]
  /\ advanceError' = [advanceError EXCEPT ![r] = @ \/ o = "error"]
  /\ fresh' = (IF o = "found" THEN fresh \cup {r} ELSE fresh)
  /\ pc' = [pc EXCEPT ![r] = CASE o = "found" -> "click"
                               [] o = "absent" -> NoSuchElementPc
                               [] OTHER -> AdvanceErrorPc]
  /\ UNCHANGED <<shown, browser, num_pages, tweets, tweet_data, response, extractCalls,
                 clicks, opened, cls, last>>
  /\ UNCHANGED guardVars

\* self.driver.execute_script("arguments[0].click();", load_more_button);
\* time.sleep(2); then extract_tweets() is called
sc_click(r, ok) ==
  /\ pc[r] = "click"
  /\ ok => (BrowserUp /\ r \in fresh)
  /\ clicks' = [clicks EXCEPT ![r] = @ + 1]
  /\ browser' = (IF ok THEN [browser EXCEPT !.page = @ + 1] ELSE browser)
  /\ fresh' = (IF ok THEN {} ELSE fresh)
  /\ advanceError' = [advanceError EXCEPT ![r] = @ \/ ~ok]
  /\ pc' = [pc EXCEPT ![r] = IF ok THEN "extract" ELSE AdvanceErrorPc]
  /\ UNCHANGED <<shown, num_pages, iter, tweets, tweet_data, response, extractCalls,
                 absent, opened, cls, last>>
  /\ UNCHANGED guardVars

\* return tweet_data, and analyze: return {"results": result}
sc_return(r) ==
  /\ \/ pc[r] = "return"
     \/ pc[r] = "loop" /\ ~InRange(iter[r], num_pages[r])
  /\ response' = [response EXCEPT ![r] = [status |-> 200, results |-> tweet_data[r]]]
  /\ pc' = [pc EXCEPT ![r] = "done"]
  /\ UNCHANGED <<shown, browser, fresh, num_pages, iter, tweets, tweet_data, extractCalls,
                 clicks, absent, advanceError, opened, cls, last>>
  /\ UNCHANGED guardVars

LoadOutcomes == {"ok", "timeout", "webdriver_error", "error"}
FindOutcomes == {"found", "absent", "error"}

\* the session exists (startup has run) and the given requests enter scrape_tweets
InitScrape(R, budgets) ==
  /\ scraper_lock = NoHolder
  /\ scraper = 1
  /\ created = 1
  /\ leaked = 0
  /\ driver = "live"
  /\ executor = "running"
  /\ pc = [r \in R |-> "get"]
  /\ seen = [r \in R |-> FALSE]
  /\ ret = [r \in R |-> 1]
  /\ attempts = [r \in R |-> 0]
  /\ browser = [q |-> None, page |-> 0]
  /\ fresh = {}
  /\ num_pages \in [R -> budgets]
  /\ iter = [r \in R |-> 0]
  /\ tweets = [r \in R |-> NoTweets]
  /\ tweet_data = [r \in R |-> <<>>]
  /\ response = [r \in R |-> NoResponse]
  /\ extractCalls = [r \in R |-> 0]
  /\ clicks = [r \in R |-> 0]
  /\ absent = [r \in R |-> FALSE]
  /\ advanceError = [r \in R |-> FALSE]
  /\ shown = [r \in R |-> 0]
  /\ opened = [r \in R |-> "pending"]
  /\ cls = [r \in R |-> FALSE]
  /\ last = [r \in R |-> NoLast]

Init == InitScrape({1}, 0..MaxNumPages)

Next ==
  \/ \E r \in Requests, o \in LoadOutcomes : sc_get(r, o)
  \/ \E r \in Requests, o \in LoadOutcomes : sc_wait(r, o)
  \/ \E r \in Requests, n \in 0..MaxTweets, ok \in BOOLEAN : sc_find_elements(r, n, ok)
  \/ \E r \in Requests, el \in Elements : sc_tweet(r, el)
  \/ \E r \in Requests : sc_end_extract(r)
  \/ \E r \in Requests, o \in FindOutcomes : sc_find_more(r, o)
  \/ \E r \in Requests, ok \in BOOLEAN : sc_click(r, ok)
  \/ \E r \in Requests : sc_return(r)

Spec == Init /\ [][Next]_vars

\* elements of foreign-language posts: every collaborator (field lookup,
\* translator, classifier) is called and each may raise
LiveElements ==
  [present : BOOLEAN, text : {<<233>>}, translation_ok : BOOLEAN,
   translation : Translations, sentiment_ok : BOOLEAN,
   stats : {StatList(2)}, avatar : {TRUE}]

NextLive ==
  \/ \E r \in Requests, o \in LoadOutcomes : sc_get(r, o)
  \/ \E r \in Requests, o \in LoadOutcomes : sc_wait(r, o)
  \/ \E r \in Requests, n \in 0..MaxTweets, ok \in BOOLEAN : sc_find_elements(r, n, ok)
  \/ \E r \in Requests, el \in LiveElements : sc_tweet(r, el)
  \/ \E r \in Requests : sc_end_extract(r)
  \/ \E r \in Requests, o \in FindOutcomes : sc_find_more(r, o)
  \/ \E r \in Requests, ok \in BOOLEAN : sc_click(r, ok)
  \/ \E r \in Requests : sc_return(r)

\* every call of scrape_tweets returns or raises, so an enabled step is taken
SpecLive == Init /\ [][NextLive]_vars /\ WF_vars(NextLive)

\* two requests share the session; their queries differ (the query of
\* request r is r); the elements are complete, carry ASCII text and classify
ConcRequests == {1, 2}
\* def scrape_tweets(self, query, num_pages=2): what analyze passes
DefaultNumPages == 2
ConcBudgets == {DefaultNumPages}
ConcElements ==
  [present : {TRUE}, text : {<<104>>}, translation_ok : {TRUE},
   translation : Translations, sentiment_ok : {TRUE},
   stats : {StatList(2)}, avatar : {TRUE}]

InitConc == InitScrape(ConcRequests, ConcBudgets)

NextConc ==
  \/ \E r \in Requests, o \in LoadOutcomes : sc_get(r, o)
  \/ \E r \in Requests, o \in LoadOutcomes : sc_wait(r, o)
  \/ \E r \in Requests, n \in 0..1, ok \in BOOLEAN : sc_find_elements(r, n, ok)
  \/ \E r \in Requests, el \in ConcElements : sc_tweet(r, el)
  \/ \E r \in Requests : sc_end_extract(r)
  \/ \E r \in Requests, o \in FindOutcomes : sc_find_more(r, o)
  \/ \E r \in Requests, ok \in BOOLEAN : sc_click(r, ok)
  \/ \E r \in Requests : sc_return(r)

SpecConc == InitConc /\ [][NextConc]_vars

\* ------------------------------------------------------------------ claims
Posts(r) == {tweet_data[r][k] : k \in 1..Len(tweet_data[r])}

\* C1: scrape_tweets with page budget N calls extract_tweets at most N times.
C1_ExtractAtMostBudget ==
  \A r \in Requests : extractCalls[r] <= num_pages[r]

\* r has loaded its page and has not finished its last extraction
InNavigation(r) == pc[r] \in {"wait", "extract", "tweet", "loop", "click"}

\* C2: the navigation sequences of two requests on the shared session never
\* overlap: while one request is between its page load and the end of its last
\* extraction, no other request is.
C2_NoInterleaving ==
  \A r1, r2 \in Requests : (r1 # r2 /\ InNavigation(r1)) => ~InNavigation(r2)

\* C4: once the pagination control was found absent the request clicks and
\* extracts no more, and it answers without error exactly the posts it had.
C4_StopAtAbsent ==
  [][\A r \in Requests :
       /\ absent'[r] => pc'[r] \in {"return", "done"}
       /\ absent[r] =>
            /\ clicks'[r] = clicks[r]
            /\ extractCalls'[r] = extractCalls[r]
            /\ tweet_data'[r] = tweet_data[r]
            /\ pc'[r] = "done" => response'[r] = [status |-> 200, results |-> tweet_data[r]]]_vars

\* page 1 gave three posts, the control was absent at the first look, budget 2
C4_Witness ==
  \E r \in Requests :
    /\ absent[r] /\ pc[r] = "done" /\ num_pages[r] = 2
    /\ extractCalls[r] = 1 /\ clicks[r] = 0
    /\ response[r].status = 200 /\ Len(response[r].results) = 3

\* C5: a failed page load or a timeout of the wait ends the request with an
\* empty result and no error, without extraction, enrichment or pagination.
C5_OpenFailEmpty ==
  \A r \in Requests :
    opened[r] = "fail" =>
      /\ pc[r] = "done"
      /\ response[r] = [status |-> 200, results |-> <<>>]
      /\ extractCalls[r] = 0 /\ clicks[r] = 0 /\ iter[r] = 0
      /\ tweet_data[r] = <<>> /\ last[r] = NoLast
      /\ ~cls[r]

\* the page loaded but the wait for the timeline did not succeed
C5_Witness ==
  \E r \in Requests :
    opened[r] = "fail" /\ pc[r] = "done" /\ browser.q = r /\ response[r].status = 200

\* C6: when classification fails for every post of a request, the answer is
\* an error or marks the posts unscored; it is not a plain success without them.
C6_ClassificationFailureSurfaced ==
  \A r \in Requests :
    (pc[r] = "done" /\ cls[r] /\ tweet_data[r] = <<>>) =>
      \/ response[r].status # 200
      \/ \E k \in 1..Len(response[r].results) :
           response[r].results[k].sentiment = "unscored"

\* C7: every accumulated post carries the label and score the model gave for
\* its normalized text, and nothing is appended without a classification.
C7_PostsClassified ==
  \A r \in Requests :
    /\ \A p \in Posts(r) :
         /\ p.sentiment # Null
         /\ p.sentiment = sentiment_pipe(p.trans_content).label
         /\ p.sentiment_score = sentiment_pipe(p.trans_content).score
    /\ last[r].appended => last[r].classified

\* a translated post was classified and appended
C7_Witness ==
  \E r \in Requests :
    /\ last[r].appended /\ last[r].translateCalled /\ ~last[r].translateFailed
    /\ cls[r]

\* C8: a failed enrichment costs only its own post: each iteration consumes one
\* element, appends it when extraction and classification succeeded, and the
\* loop is left only at the end of the page, towards the pagination step.
C8_FailureIsolated ==
  [][\A r \in Requests :
       pc[r] = "tweet" =>
         /\ (pc'[r] = "tweet" /\ tweets'[r] # tweets[r]) =>
              /\ tweets'[r].idx = tweets[r].idx + 1
              /\ IF last'[r].extracted /\ last'[r].classified
                   THEN /\ Len(tweet_data'[r]) = Len(tweet_data[r]) + 1
                        /\ SubSeq(tweet_data'[r], 1, Len(tweet_data[r])) = tweet_data[r]
                        /\ tweet_data'[r][Len(tweet_data'[r])].tweet_content = last'[r].text
                   ELSE tweet_data'[r] = tweet_data[r]
         /\ pc'[r] # "tweet" => (pc'[r] = "loop" /\ tweets[r].idx = tweets[r].n)]_vars

\* on page 1 a classification failed, the second element was appended, and the
\* request went on to the pagination control
C8_Witness ==
  \E r \in Requests :
    /\ pc[r] = "click" /\ extractCalls[r] = 1
    /\ cls[r]
    /\ Len(tweet_data[r]) = 1 /\ tweet_data[r][1].tweet_url = <<r, 1, 2>>

\* C9: for ASCII-only text the translator is not called and the normalized
\* text is the original text.
C9_AsciiUntranslated ==
  \A r \in Requests :
    /\ (last[r].extracted /\ IsAscii(last[r].text)) =>
         (~last[r].translateCalled /\ last[r].trans_content = last[r].text)
    /\ \A p \in Posts(r) : IsAscii(p.tweet_content) => p.trans_content = p.tweet_content

C9_Witness ==
  \E r \in Requests :
    /\ last[r].appended /\ last[r].text = <<104>>
    /\ tweet_data[r][Len(tweet_data[r])].trans_content = <<104>>

\* C10: when the translation of a non-ASCII text fails, the normalized text is
\* the original text, classification is still attempted, and the post is
\* appended if classification succeeds; the request goes on without error.
C10_TranslateFallback ==
  \A r \in Requests :
    last[r].translateFailed =>
      /\ ~IsAscii(last[r].text)
      /\ last[r].trans_content = last[r].text
      /\ last[r].submitted
      /\ pc[r] = "tweet" /\ response[r] = NoResponse
      /\ last[r].classified =>
           /\ last[r].appended
           /\ tweet_data[r][Len(tweet_data[r])].tweet_content = last[r].text
           /\ tweet_data[r][Len(tweet_data[r])].trans_content = last[r].text

C10_Witness ==
  \E r \in Requests :
    /\ last[r].translateFailed /\ last[r].appended
    /\ tweet_data[r][Len(tweet_data[r])].trans_content = <<233>>

\* ------------------------------------------------- field extraction, one page
\* complete and incomplete items with every number of stats, with and without
\* an avatar; the text is ASCII and the classification succeeds
FieldElements ==
  [present : BOOLEAN, text : {<<104>>}, translation_ok : {TRUE},
   translation : Translations, sentiment_ok : {TRUE},
   stats : StatLists, avatar : BOOLEAN]

InitFields == InitScrape({1}, {0})

NextFields ==
  \/ \E r \in Requests, o \in LoadOutcomes : sc_get(r, o)
  \/ \E r \in Requests, o \in LoadOutcomes : sc_wait(r, o)
  \/ \E r \in Requests, n \in 0..MaxTweets, ok \in BOOLEAN : sc_find_elements(r, n, ok)
  \/ \E r \in Requests, el \in FieldElements : sc_tweet(r, el)
  \/ \E r \in Requests : sc_end_extract(r)
  \/ \E r \in Requests : sc_return(r)

SpecFields == InitFields /\ [][NextFields]_vars

LastPost(r) == tweet_data[r][Len(tweet_data[r])]

\* C11: of an item with k stat elements the four engagement fields are the
\* first min(k,4) stat texts in page order, every further slot is "0".
C11_StatsPositional ==
  \A r \in Requests :
    last[r].appended =>
      LET p == LastPost(r)
          k == last[r].nstats
          slots == <<p.comments, p.retweets, p.quotes, p.likes>>
      IN \A i \in 1..4 : slots[i] = (IF i <= k THEN <<48 + i>> ELSE <<48>>)

\* an item with three stats: three texts in order, then "0"
C11_Witness ==
  \E r \in Requests :
    /\ last[r].appended /\ last[r].nstats = 3
    /\ LastPost(r).quotes = <<51>> /\ LastPost(r).likes = <<48>>

\* C12: an item that lacks a required field is skipped alone: nothing is
\* appended for it and the loop goes on with the next item of the page.
C12_MissingFieldSkipsOne ==
  [][\A r \in Requests :
       (pc[r] = "tweet" /\ tweets'[r] # tweets[r] /\ last'[r].missing) =>
         /\ tweet_data'[r] = tweet_data[r]
         /\ tweets'[r] = [tweets[r] EXCEPT !.idx = @ + 1]
         /\ pc'[r] = "tweet"]_vars

\* items 1 and 3 of page 1 were appended, item 2 lacked a field
C12_Witness ==
  \E r \in Requests :
    /\ last[r].appended /\ tweets[r].idx = 3 /\ ~cls[r]
    /\ Len(tweet_data[r]) = 2
    /\ tweet_data[r][1].tweet_url = <<r, 1, 1>>
    /\ tweet_data[r][2].tweet_url = <<r, 1, 3>>

IsPrefix(a, b) == Len(a) <= Len(b) /\ SubSeq(b, 1, Len(a)) = a

\* page-then-DOM order of two posts, by the page and the position they came from
Before(p, q) ==
  \/ p.tweet_url[2] < q.tweet_url[2]
  \/ p.tweet_url[2] = q.tweet_url[2] /\ p.tweet_url[3] < q.tweet_url[3]

\* C13: within a request the accumulator only grows at its end, its posts stay
\* in page-then-DOM order, and the answer is the accumulator as it stands.
C13_AppendOnlyOrdered ==
  [][\A r \in Requests :
       /\ IsPrefix(tweet_data[r], tweet_data'[r])
       /\ Len(tweet_data'[r]) <= Len(tweet_data[r]) + 1
       /\ \A i, j \in 1..Len(tweet_data'[r]) :
            i < j => Before(tweet_data'[r][i], tweet_data'[r][j])
       /\ (pc[r] # "done" /\ pc'[r] = "done") =>
            (response'[r].results = tweet_data[r] /\ tweet_data'[r] = tweet_data[r])]_vars

\* two posts of page 1 and one of page 2 were returned
C13_Witness ==
  \E r \in Requests :
    /\ pc[r] = "done" /\ Len(response[r].results) = 3
    /\ response[r].results[1].tweet_url = <<r, 1, 1>>
    /\ response[r].results[2].tweet_url = <<r, 1, 2>>
    /\ response[r].results[3].tweet_url = <<r, 2, 1>>

\* ---------------------------------------------------- lifecycle, continued
\* C14: when shutdown has run with a session present, the browser handle is
\* released and the worker pool is stopped, whatever the release steps did.
C14_ShutdownReleasesAll ==
  (pc[Lifespan] = "stopped" /\ scraper # None) =>
    (driver = "quit" /\ executor = "shutdown")

\* C15: a failed construction reaches the caller at once: the lock is free
\* again, no session is installed, and that call constructs nothing further.
C15_ConstructionFailurePropagates ==
  [][\A t \in Threads :
       /\ attempts'[t] <= 1
       /\ (pc[t] # "raised" /\ pc'[t] = "raised") =>
            /\ attempts'[t] = 1
            /\ scraper' = None /\ created' = created
            /\ scraper_lock' = NoHolder
       /\ pc[t] = "raised" => (pc'[t] = "raised" /\ attempts'[t] = attempts[t])]_vars

\* one caller's construction failed; the other caller then installed a session
C15_Witness ==
  \E t, u \in Callers :
    /\ pc[t] = "raised" /\ attempts[t] = 1
    /\ pc[u] = "returned" /\ attempts[u] = 1 /\ ret[u] = scraper
    /\ pc[Lifespan] = "raised"

\* C16: when finding or clicking the pagination control raises anything but
\* its absence, the request clicks and extracts no more and answers without
\* error the posts it had.
C16_StopAtAdvanceError ==
  [][\A r \in Requests :
       /\ advanceError'[r] => pc'[r] \in {"return", "done"}
       /\ advanceError[r] =>
            /\ clicks'[r] = clicks[r]
            /\ iter'[r] = iter[r]
            /\ extractCalls'[r] = extractCalls[r]
            /\ tweet_data'[r] = tweet_data[r]
            /\ pc'[r] = "done" => response'[r] = [status |-> 200, results |-> tweet_data[r]]]_vars

\* the first click raised with budget 2: one extraction, its posts returned
C16_Witness ==
  \E r \in Requests :
    /\ advanceError[r] /\ ~absent[r] /\ pc[r] = "done" /\ num_pages[r] = 2
    /\ clicks[r] = 1 /\ iter[r] = 1 /\ extractCalls[r] = 1
    /\ response[r].status = 200 /\ Len(response[r].results) = 2

\* C17: when every collaborator call returns, every request reaches done; on
\* the way it clicks the pagination control at most num_pages times and
\* traverses one element list per page it opened.
C17_EveryRequestReturns ==
  /\ <>(\A r \in Requests : pc[r] = "done")
  /\ [](\A r \in Requests :
          /\ clicks[r] <= num_pages[r]
          /\ iter[r] <= num_pages[r]
          /\ extractCalls[r] <= clicks[r] + 1
          /\ tweets[r].idx <= tweets[r].n)

\* a request that used its whole budget of two clicks has returned
C17_Witness ==
  \E r \in Requests :
    /\ pc[r] = "done" /\ num_pages[r] = 2 /\ clicks[r] = 2 /\ extractCalls[r] = 3
    /\ response[r].status = 200

\* C18: every post a request has accumulated or returned was extracted from a
\* page opened for that request's own query, whatever the interleaving.
C18_OwnQueryOnly ==
  \A r \in Requests :
    /\ \A p \in Posts(r) : p.tweet_url[1] = r
    /\ \A k \in 1..Len(response[r].results) : response[r].results[k].tweet_url[1] = r

\* ---------------------------------------------------------------------------
\* One request over the application's life: startup has installed the session,
\* the request runs get_scraper and then scrape_tweets, and the lifespan may
\* resume after its yield at any moment.

\* result = scraper_instance.scrape_tweets(request.text)
analyze_call(r) ==
  /\ pc[r] = "returned"
  /\ pc' = [pc EXCEPT ![r] = "get"]
  /\ UNCHANGED guardVars
  /\ UNCHANGED scrapeVars

LifeRequests == {1}

InitLife ==
  /\ scraper_lock = NoHolder
  /\ scraper = 1
  /\ created = 1
  /\ leaked = 0
  /\ driver = "live"
  /\ executor = "running"
  /\ pc = [t \in {Lifespan} \cup LifeRequests |-> IF t = Lifespan THEN "serving" ELSE "gs_lock"]
  /\ seen = [t \in {Lifespan} \cup LifeRequests |-> FALSE]
  /\ ret = [t \in {Lifespan} \cup LifeRequests |-> None]
  /\ attempts = [t \in {Lifespan} \cup LifeRequests |-> IF t = Lifespan THEN 1 ELSE 0]
  /\ browser = [q |-> None, page |-> 0]
  /\ fresh = {}
  /\ num_pages = [r \in LifeRequests |-> DefaultNumPages]
  /\ iter = [r \in LifeRequests |-> 0]
  /\ tweets = [r \in LifeRequests |-> NoTweets]
  /\ tweet_data = [r \in LifeRequests |-> <<>>]
  /\ response = [r \in LifeRequests |-> NoResponse]
  /\ extractCalls = [r \in LifeRequests |-> 0]
  /\ clicks = [r \in LifeRequests |-> 0]
  /\ absent = [r \in LifeRequests |-> FALSE]
  /\ advanceError = [r \in LifeRequests |-> FALSE]
  /\ shown = [r \in LifeRequests |-> 0]
  /\ opened = [r \in LifeRequests |-> "pending"]
  /\ cls = [r \in LifeRequests |-> FALSE]
  /\ last = [r \in LifeRequests |-> NoLast]

\* the session exists, so get_scraper never takes its construction branch
NextLife ==
  \/ \E r \in Requests : gs_lock(r)
  \/ \E r \in Requests : gs_check(r)
  \/ \E r \in Requests : gs_unlock(r)
  \/ \E r \in Requests : gs_return(r)
  \/ \E r \in Requests : analyze_call(r)
  \/ \E r \in Requests, o \in LoadOutcomes : sc_get(r, o)
  \/ \E r \in Requests, o \in LoadOutcomes : sc_wait(r, o)
  \/ \E r \in Requests, n \in 0..1, ok \in BOOLEAN : sc_find_elements(r, n, ok)
  \/ \E r \in Requests, el \in ConcElements : sc_tweet(r, el)
  \/ \E r \in Requests : sc_end_extract(r)
  \/ \E r \in Requests, o \in FindOutcomes : sc_find_more(r, o)
  \/ \E r \in Requests, ok \in BOOLEAN : sc_click(r, ok)
  \/ \E r \in Requests : sc_return(r)
  \/ ls_shutdown
  \/ ls_close

SpecLife == InitLife /\ [][NextLife]_vars

\* C19: once the session's browser was released, no request holds the session
\* for a scrape or is inside one.
C19_NoUseAfterTeardown ==
  driver = "quit" =>
    \A r \in Requests :
      pc[r] \notin {"returned", "get", "wait", "extract", "tweet", "loop", "click", "return"}

\* C20: at most one browser is running in the process: no browser started by
\* an earlier construction is left unreleased beside the session's one.
C20_OneBrowserProcessWide ==
  leaked + (IF driver = "live" THEN 1 ELSE 0) <= 1

====
